---------------------------- MODULE Spec2Model ----------------------------
(***************************************************************************)
(* PID-controlled servo emulator: pid_controller.hpp, tof_sensor.hpp,      *)
(* servo.hpp and input.hpp.                                                *)
(*                                                                         *)
(* A C++ double is modelled as an extended rational <<n, d>>:              *)
(*   d > 0, gcd(|n|, d) = 1   the finite value n/d (zero is <<0, 1>>)      *)
(*   <<1, 0>>, <<-1, 0>>      +infinity and -infinity                      *)
(*   <<0, 0>>                 NaN                                          *)
(* The arithmetic follows IEEE 754 for the special values (x/0, 0/0,       *)
(* inf-inf, 0*inf, comparisons with NaN are false); rounding of finite     *)
(* results and the sign of zero are not modelled.                          *)
(***************************************************************************)
EXTENDS Integers, Sequences, FiniteSets, TLC

VARIABLES
    pid,           \* servo::pid, or the pid_controller under test
    left_sensor,   \* servo::left_sensor, or the tof_sensor under test
    right_sensor,  \* servo::right_sensor
    call,          \* the last member function called and its arguments
    calls,         \* how many member functions have been called
    regulated      \* per regulate call on pid so far: <<target, new_input, output>>

vars == <<pid, left_sensor, right_sensor, call, calls, regulated>>

---------------------------------------------------------------------------
(* Bounds of the model. *)

MaxPidCalls == 3
MaxSensorCalls == 3
MaxServoCalls == 3

---------------------------------------------------------------------------
(* double *)

Abs(n) == IF n < 0 THEN -n ELSE n

Sgn(n) == IF n < 0 THEN -1 ELSE IF n > 0 THEN 1 ELSE 0

RECURSIVE GCD(_, _)
GCD(a, b) == IF b = 0 THEN a ELSE GCD(b, a % b)

\* the finite double n/d, d # 0, in lowest terms
Q(n, d) ==
    LET g == GCD(Abs(n), Abs(d))
    IN  <<Sgn(d) * (n \div g), Abs(d) \div g>>

\* the double of an integer literal
R(n) == <<n, 1>>

NaN == <<0, 0>>

Inf(s) == <<s, 0>>

IsNaN(a) == a = NaN

IsInf(a) == a[2] = 0 /\ a[1] # 0

LCM(a, b) == (a \div GCD(a, b)) * b

\* a + b
Add(a, b) ==
    IF IsNaN(a) \/ IsNaN(b) THEN NaN
    ELSE IF IsInf(a) /\ IsInf(b) THEN (IF a = b THEN a ELSE NaN)
    ELSE IF IsInf(a) THEN a
    ELSE IF IsInf(b) THEN b
    ELSE LET l == LCM(a[2], b[2])
         IN  Q(a[1] * (l \div a[2]) + b[1] * (l \div b[2]), l)

\* -a
Neg(a) == <<-a[1], a[2]>>

\* a - b
Sub(a, b) == Add(a, Neg(b))

\* a * b
Mul(a, b) ==
    IF IsNaN(a) \/ IsNaN(b) THEN NaN
    ELSE IF IsInf(a) \/ IsInf(b)
         THEN (IF a[1] = 0 \/ b[1] = 0 THEN NaN ELSE Inf(Sgn(a[1]) * Sgn(b[1])))
    ELSE LET g1 == GCD(Abs(a[1]), b[2])
             g2 == GCD(Abs(b[1]), a[2])
         IN  Q((a[1] \div g1) * (b[1] \div g2), (a[2] \div g2) * (b[2] \div g1))

\* a / b
Div(a, b) ==
    IF IsNaN(a) \/ IsNaN(b) THEN NaN
    ELSE IF IsInf(a) THEN (IF IsInf(b) THEN NaN
                           ELSE Inf(Sgn(a[1]) * (IF b[1] < 0 THEN -1 ELSE 1)))
    ELSE IF IsInf(b) THEN R(0)
    ELSE IF b[1] = 0 THEN (IF a[1] = 0 THEN NaN ELSE Inf(Sgn(a[1])))
    ELSE Mul(a, Q(b[2], b[1]))

\* a < b
Lt(a, b) ==
    /\ ~IsNaN(a)
    /\ ~IsNaN(b)
    /\ IF IsInf(a) \/ IsInf(b)
       THEN (IF IsInf(a) THEN a[1] ELSE 0) < (IF IsInf(b) THEN b[1] ELSE 0)
       ELSE LET l == LCM(a[2], b[2])
            IN  a[1] * (l \div a[2]) < b[1] * (l \div b[2])

\* a > b
Gt(a, b) == Lt(b, a)

\* a == b
Eq(a, b) == ~IsNaN(a) /\ ~IsNaN(b) /\ a = b

\* a <= b
Le(a, b) == Lt(a, b) \/ Eq(a, b)

\* a >= b
Ge(a, b) == Le(b, a)

---------------------------------------------------------------------------
(* pid_controller *)

\* pid_controller(void): every field keeps its default member initializer
pid_controller ==
    [target |-> R(0), output |-> R(0), input |-> R(0),
     kp |-> R(0), ki |-> R(0), kd |-> R(0),
     integrate |-> R(0), derivate |-> R(0), last_error |-> R(0),
     output_min |-> R(0), output_max |-> R(0)]

\* init starting the regulation over: integral, last error and output cleared
pid_init_reset(p, target, output_min, output_max, kp, ki, kd) ==
    [p EXCEPT !.target = target,
              !.output_min = output_min,
              !.output_max = output_max,
              !.kp = kp,
              !.ki = ki,
              !.kd = kd,
              !.integrate = R(0),
              !.last_error = R(0),
              !.output = R(0)]

\* pid_controller::init
pid_init(p, target, output_min, output_max, kp, ki, kd) ==
    [p EXCEPT !.target = target,
              !.output_min = output_min,
              !.output_max = output_max,
              !.kp = kp,
              !.ki = ki,
              !.kd = kd]

\* check_output without the clamp
check_output_unclamped(p) == p

\* pid_controller::check_output
check_output(p) ==
    IF Lt(p.output, p.output_min) THEN [p EXCEPT !.output = p.output_min]
    ELSE IF Gt(p.output, p.output_max) THEN [p EXCEPT !.output = p.output_max]
    ELSE p

\* regulate in the conventional PID form: no target bias in the output, and the
\* integral added to the output before this call's error is accumulated
regulate_conventional(p, new_input) ==
    LET error == Sub(p.target, new_input)
        derivate == Sub(error, p.last_error)
        output == Add(Add(Mul(p.kp, error), Mul(p.ki, p.integrate)),
                      Mul(p.kd, derivate))
    IN  check_output([p EXCEPT !.input = new_input,
                               !.integrate = Add(p.integrate, error),
                               !.derivate = derivate,
                               !.output = output,
                               !.last_error = error])

\* regulate with anti-windup: the error is accumulated only when the output
\* it leads to needs no clamping
regulate_antiwindup(p, new_input) ==
    LET error == Sub(p.target, new_input)
        integrate == Add(p.integrate, error)
        derivate == Sub(error, p.last_error)
        output == Add(Add(Add(p.target, Mul(p.kp, error)),
                          Mul(p.ki, integrate)),
                      Mul(p.kd, derivate))
        saturated == Lt(output, p.output_min) \/ Gt(output, p.output_max)
    IN  check_output([p EXCEPT !.input = new_input,
                               !.integrate = IF saturated THEN p.integrate ELSE integrate,
                               !.derivate = derivate,
                               !.output = output,
                               !.last_error = error])

\* pid_controller::regulate
regulate(p, new_input) ==
    LET error == Sub(p.target, new_input)
        integrate == Add(p.integrate, error)
        derivate == Sub(error, p.last_error)
        output == Add(Add(Add(p.target, Mul(p.kp, error)),
                          Mul(p.ki, integrate)),
                      Mul(p.kd, derivate))
    IN  check_output([p EXCEPT !.input = new_input,
                               !.integrate = integrate,
                               !.derivate = derivate,
                               !.output = output,
                               !.last_error = error])

---------------------------------------------------------------------------
(* tof_sensor *)

DEFAULT_MIN == R(0)

DEFAULT_MAX == R(1023)

\* tof_sensor(void): the window is the default one, the value is 0
tof_sensor == [min |-> DEFAULT_MIN, max |-> DEFAULT_MAX, val |-> R(0)]

\* init validating sensor_max against the coerced minimum
tof_init_coerced_min(s, sensor_min, sensor_max) ==
    LET lo == IF Ge(sensor_min, R(0)) THEN sensor_min ELSE R(0)
    IN  [s EXCEPT !.min = lo,
                  !.max = IF Gt(sensor_max, lo) THEN sensor_max ELSE R(1023)]

\* tof_sensor::init
tof_init(s, sensor_min, sensor_max) ==
    [s EXCEPT !.min = IF Ge(sensor_min, R(0)) THEN sensor_min ELSE R(0),
              !.max = IF Gt(sensor_max, sensor_min) THEN sensor_max ELSE R(1023)]

\* tof_sensor::check_sensor_value
check_sensor_value(s) ==
    IF Lt(s.val, s.min) THEN [s EXCEPT !.val = s.min]
    ELSE IF Gt(s.val, s.max) THEN [s EXCEPT !.val = s.max]
    ELSE s

\* tof_sensor::read_from_terminal, v the number input::get_double returns
read_from_terminal(s, v) == check_sensor_value([s EXCEPT !.val = v])

\* tof_sensor::input_range
tof_input_range(s) == Sub(s.max, s.min)

---------------------------------------------------------------------------
(* servo *)

\* init handing the angle bounds to the sensors
servo_init_angles(sv, target_angle, angle_min, angle_max, input_min, input_max, kp, ki, kd) ==
    [pid |-> pid_init(sv.pid, target_angle, angle_min, angle_max, kp, ki, kd),
     left_sensor |-> tof_init(sv.left_sensor, angle_min, angle_max),
     right_sensor |-> tof_init(sv.right_sensor, angle_min, angle_max)]

\* servo::init
servo_init(sv, target_angle, angle_min, angle_max, input_min, input_max, kp, ki, kd) ==
    [pid |-> pid_init(sv.pid, target_angle, angle_min, angle_max, kp, ki, kd),
     left_sensor |-> tof_init(sv.left_sensor, input_min, input_max),
     right_sensor |-> tof_init(sv.right_sensor, input_min, input_max)]

\* servo::target
target(sv) == sv.pid.target

\* servo::output
output(sv) == sv.pid.output

\* servo::input_range
input_range(sv) == tof_input_range(sv.left_sensor)

\* servo::input_difference
input_difference(sv) == Sub(sv.left_sensor.val, sv.right_sensor.val)

\* servo::input_ratio
input_ratio(sv) ==
    LET scaled_input == Div(Add(input_difference(sv), input_range(sv)), R(2))
    IN  Div(scaled_input, input_range(sv))

\* servo::input_mapped
input_mapped(sv) == Mul(input_ratio(sv), Mul(sv.pid.target, R(2)))

\* run regulating before the right sensor is read: the mapped input is taken
\* from the new left value and the right value of the cycle before
run_regulate_before_right(sv, l, r) ==
    LET s1 == [sv EXCEPT !.left_sensor = read_from_terminal(sv.left_sensor, l)]
        s2 == [s1 EXCEPT !.pid = regulate(s1.pid, input_mapped(s1))]
    IN  [s2 EXCEPT !.right_sensor = read_from_terminal(s2.right_sensor, r)]

\* servo::run, l and r the numbers entered for the left and the right sensor;
\* print() changes no field
run(sv, l, r) ==
    LET s1 == [sv EXCEPT !.left_sensor = read_from_terminal(sv.left_sensor, l)]
        s2 == [s1 EXCEPT !.right_sensor = read_from_terminal(s1.right_sensor, r)]
    IN  [s2 EXCEPT !.pid = regulate(s2.pid, input_mapped(s2))]

\* the servo the three variables hold
self == [pid |-> pid, left_sensor |-> left_sensor, right_sensor |-> right_sensor]

\* servo(void): default-constructed members, then init with the default arguments
servo ==
    servo_init([pid |-> pid_controller, left_sensor |-> tof_sensor,
                right_sensor |-> tof_sensor],
               R(90), R(0), R(180), R(0), R(1023), R(1), Q(1, 100), Q(1, 10))

---------------------------------------------------------------------------
(* The arguments the callers pass. *)

\* target, and the target angle of a servo
Targets == {R(0), R(2), R(90)}

\* <<output_min, output_max>>, the last one with output_min > output_max
OutputBounds == {<<R(0), R(180)>>, <<R(0), R(1)>>, <<R(3), R(1)>>}

\* <<kp, ki, kd>>, the first the default gains
Gains == {<<R(1), Q(1, 100), Q(1, 10)>>, <<R(2), Q(1, 2), R(1)>>}

\* new_input of regulate
Inputs == {R(-1), R(0), Q(1, 2), R(2), R(90)}

\* sensor_min and sensor_max of tof_sensor::init
SensorBounds == {R(-5), R(-3), R(0), R(5), R(10), R(1023), R(2000)}

\* the numbers entered at the terminal
Readings == {R(-4), R(0), Q(5, 2), R(7), R(500), R(700), R(1500)}

---------------------------------------------------------------------------
(* A pid_controller on its own. *)

PidNew ==
    /\ pid = pid_controller
    /\ left_sensor = tof_sensor
    /\ right_sensor = tof_sensor
    /\ call = [op |-> "pid_controller", args |-> <<>>]
    /\ calls = 0
    /\ regulated = <<>>

PidInit ==
    /\ calls < MaxPidCalls
    /\ \E t \in Targets, b \in OutputBounds, g \in Gains :
          /\ pid' = pid_init(pid, t, b[1], b[2], g[1], g[2], g[3])
          /\ call' = [op |-> "init", args |-> <<t, b[1], b[2], g[1], g[2], g[3]>>]
    /\ calls' = calls + 1
    /\ UNCHANGED <<left_sensor, right_sensor, regulated>>

PidRegulate ==
    /\ calls < MaxPidCalls
    /\ \E x \in Inputs :
          /\ pid' = regulate(pid, x)
          /\ call' = [op |-> "regulate", args |-> <<x>>]
          /\ regulated' = Append(regulated, <<pid.target, x, pid'.output>>)
    /\ calls' = calls + 1
    /\ UNCHANGED <<left_sensor, right_sensor>>

PidNext == PidInit \/ PidRegulate

PidSpec == PidNew /\ [][PidNext]_vars

---------------------------------------------------------------------------
(* A tof_sensor on its own, held in left_sensor. *)

SensorNew ==
    /\ pid = pid_controller
    /\ left_sensor = tof_sensor
    /\ right_sensor = tof_sensor
    /\ call = [op |-> "tof_sensor", args |-> <<>>]
    /\ calls = 0
    /\ regulated = <<>>

SensorInit ==
    /\ calls < MaxSensorCalls
    /\ \E lo \in SensorBounds, hi \in SensorBounds :
          /\ left_sensor' = tof_init(left_sensor, lo, hi)
          /\ call' = [op |-> "init", args |-> <<lo, hi>>]
    /\ calls' = calls + 1
    /\ UNCHANGED <<pid, right_sensor, regulated>>

SensorRead ==
    /\ calls < MaxSensorCalls
    /\ \E v \in Readings :
          /\ left_sensor' = read_from_terminal(left_sensor, v)
          /\ call' = [op |-> "read_from_terminal", args |-> <<v>>]
    /\ calls' = calls + 1
    /\ UNCHANGED <<pid, right_sensor, regulated>>

SensorNext == SensorInit \/ SensorRead

SensorSpec == SensorNew /\ [][SensorNext]_vars

---------------------------------------------------------------------------
(* The servo. *)

\* target_angle of servo::init
ServoTargets == {R(90), R(2)}

\* <<angle_min, angle_max>>
ServoAngles == {<<R(0), R(180)>>}

\* <<input_min, input_max>>
ServoWindows ==
    {<<R(0), R(1023)>>, <<R(0), R(10)>>, <<R(-5), R(10)>>, <<R(-5), R(-3)>>,
     <<R(1023), R(10)>>, <<R(2000), R(10)>>}

\* <<kp, ki, kd>>, the default gains
ServoGains == {<<R(1), Q(1, 100), Q(1, 10)>>}

\* the numbers entered for a sensor in servo::run
ServoReadings == {R(0), R(7), R(500), R(700)}

Init ==
    /\ pid = servo.pid
    /\ left_sensor = servo.left_sensor
    /\ right_sensor = servo.right_sensor
    /\ call = [op |-> "servo", args |-> <<>>]
    /\ calls = 0
    /\ regulated = <<>>

ServoInit ==
    /\ calls < MaxServoCalls
    /\ \E t \in ServoTargets, a \in ServoAngles, w \in ServoWindows, g \in ServoGains :
          \E sv \in {servo_init(self, t, a[1], a[2], w[1], w[2], g[1], g[2], g[3])} :
              /\ pid' = sv.pid
              /\ left_sensor' = sv.left_sensor
              /\ right_sensor' = sv.right_sensor
              /\ call' = [op |-> "init",
                          args |-> <<t, a[1], a[2], w[1], w[2], g[1], g[2], g[3]>>]
    /\ calls' = calls + 1
    /\ UNCHANGED regulated

ServoRun ==
    /\ calls < MaxServoCalls
    /\ \E l \in ServoReadings, r \in ServoReadings :
          \E sv \in {run(self, l, r)} :
              /\ pid' = sv.pid
              /\ left_sensor' = sv.left_sensor
              /\ right_sensor' = sv.right_sensor
              /\ call' = [op |-> "run", args |-> <<l, r>>]
              /\ regulated' = Append(regulated, <<pid.target, sv.pid.input, sv.pid.output>>)
    /\ calls' = calls + 1

Next == ServoInit \/ ServoRun

Spec == Init /\ [][Next]_vars

---------------------------------------------------------------------------
(* Properties of the pid_controller, under PidSpec. *)

\* C1: after every regulate call, output_min <= output <= output_max, whatever
\* parameters init was given.
C1_OutputBound ==
    call.op = "regulate" =>
        Le(pid.output_min, pid.output) /\ Le(pid.output, pid.output_max)

\* The post-state C4 states for regulate(x) called in state p of the
\* controller.
C4_Transition(p, x) ==
    LET error == Sub(p.target, x)
        integral == Add(p.integrate, error)
        derivative == Sub(error, p.last_error)
        p_term == Mul(p.kp, error)
        i_term == Mul(p.ki, integral)
        d_term == Mul(p.kd, derivative)
        raw == Add(Add(Add(p.target, p_term), i_term), d_term)
    IN  [target |-> p.target, kp |-> p.kp, ki |-> p.ki, kd |-> p.kd,
         output_min |-> p.output_min, output_max |-> p.output_max,
         input |-> x,
         integrate |-> integral,
         derivate |-> derivative,
         last_error |-> error,
         output |-> IF Lt(raw, p.output_min) THEN p.output_min
                    ELSE IF Gt(raw, p.output_max) THEN p.output_max
                    ELSE raw]

\* C4: regulate(new_input) takes the pre-state to: error = target - new_input,
\* input' = new_input, integrate' = integrate + error, derivate' = error -
\* last_error, last_error' = error, output' = target + kp*error +
\* ki*integrate' + kd*derivate' clamped to [output_min, output_max]; the
\* parameters are left as they were.
C4_RegulateTransition ==
    [][call'.op = "regulate" => pid' = C4_Transition(pid, call'.args[1])]_vars

\* C4 witness: a second regulate call (the integral and the derivative differ
\* from the error) whose output lies strictly inside the output bounds and is
\* not the target.
C4_Witness ==
    /\ call.op = "regulate"
    /\ pid.integrate # pid.last_error
    /\ pid.derivate # pid.last_error
    /\ pid.last_error # R(0)
    /\ pid.ki # R(0)
    /\ Lt(pid.output_min, pid.output)
    /\ Lt(pid.output, pid.output_max)
    /\ pid.output # pid.target

\* C9 as stated: from a controller without history, regulate(target) leaves
\* integral, derivative and error at 0 and the output exactly at target.
C9_ZeroErrorOutputIsTarget ==
    [][(/\ call'.op = "regulate"
        /\ call'.args[1] = pid.target
        /\ pid.integrate = R(0)
        /\ pid.last_error = R(0))
       => (/\ pid'.integrate = R(0)
           /\ pid'.derivate = R(0)
           /\ pid'.last_error = R(0)
           /\ pid'.output = pid.target)
    ]_vars

\* C9 amended: from a controller without history, regulate(target) leaves
\* integral, derivative and error at 0 (so the next regulate(target) starts
\* without history again), and the output is output_min if target <
\* output_min, else output_max if target > output_max, else exactly target.
C9_ZeroErrorOutputIsClampedTarget ==
    [][(/\ call'.op = "regulate"
        /\ call'.args[1] = pid.target
        /\ pid.integrate = R(0)
        /\ pid.last_error = R(0))
       => (/\ pid'.integrate = R(0)
           /\ pid'.derivate = R(0)
           /\ pid'.last_error = R(0)
           /\ pid'.output = IF Lt(pid.target, pid.output_min) THEN pid.output_min
                            ELSE IF Gt(pid.target, pid.output_max) THEN pid.output_max
                            ELSE pid.target)
    ]_vars

\* C9 witness: the third of three calls is a regulate(target) that found no
\* history and a target above output_max, and left the output at output_max.
C9_Witness ==
    /\ calls = 3
    /\ call.op = "regulate"
    /\ call.args[1] = pid.target
    /\ pid.integrate = R(0)
    /\ pid.last_error = R(0)
    /\ pid.derivate = R(0)
    /\ Gt(pid.target, pid.output_max)
    /\ pid.output = pid.output_max

---------------------------------------------------------------------------
(* Properties of the tof_sensor, under SensorSpec. *)

\* C2: after construction, after init with any arguments and after a value
\* was read and checked, min <= val <= max.
C2_SensorValueInWindow ==
    Le(left_sensor.min, left_sensor.val) /\ Le(left_sensor.val, left_sensor.max)

\* C3: after init(sensor_min, sensor_max) with any arguments, max > min, so
\* that input_range() > 0.
C3_WindowValid ==
    call.op = "init" =>
        /\ Gt(left_sensor.max, left_sensor.min)
        /\ Gt(tof_input_range(left_sensor), R(0))

\* C8: init(sensor_min, sensor_max) stores min = 0 if sensor_min < 0, else
\* sensor_min, and max = 1023 if sensor_max <= sensor_min (the argument, not
\* the stored minimum), else sensor_max; init(-5, 10) stores [0, 10].
C8_WindowCoercion ==
    call.op = "init" =>
        LET lo == call.args[1]
            hi == call.args[2]
        IN  /\ left_sensor.min = IF Lt(lo, R(0)) THEN R(0) ELSE lo
            /\ left_sensor.max = IF Le(hi, lo) THEN R(1023) ELSE hi
            /\ (lo = R(-5) /\ hi = R(10) =>
                    left_sensor.min = R(0) /\ left_sensor.max = R(10))

\* C8 witness: init(-5, -3) stored [0, -3]: the minimum was coerced and the
\* maximum, above the argument but below the stored minimum, was kept.
C8_Witness ==
    /\ call.op = "init"
    /\ call.args = <<R(-5), R(-3)>>
    /\ left_sensor.min = R(0)
    /\ left_sensor.max = R(-3)

\* C11: for every window init stores and every reading v, reading v and then
\* reading the value that resulted leaves the value unchanged:
\* clamp(clamp(v)) == clamp(v).
C11_ClampIdempotent ==
    \A v \in Readings :
        read_from_terminal(read_from_terminal(left_sensor, v),
                           read_from_terminal(left_sensor, v).val).val
            = read_from_terminal(left_sensor, v).val

---------------------------------------------------------------------------
(* Properties of the servo, under Spec. *)

\* C5: in every servo state with left_sensor.val == right_sensor.val,
\* input_ratio() is exactly 0.5 and input_mapped() is the target.
C5_BalancedFixedPoint ==
    Eq(left_sensor.val, right_sensor.val) =>
        /\ Eq(input_ratio(self), Q(1, 2))
        /\ Eq(input_mapped(self), target(self))

\* C6: in every servo state, 0 <= input_ratio() <= 1.
C6_RatioRange ==
    Le(R(0), input_ratio(self)) /\ Le(input_ratio(self), R(1))

\* C7: in every servo state, left_sensor.val > right_sensor.val gives
\* input_difference() > 0 and input_ratio() > 0.5, and left_sensor.val <
\* right_sensor.val gives input_difference() < 0 and input_ratio() < 0.5.
C7_DifferentialSign ==
    /\ Gt(left_sensor.val, right_sensor.val) =>
          Gt(input_difference(self), R(0)) /\ Gt(input_ratio(self), Q(1, 2))
    /\ Lt(left_sensor.val, right_sensor.val) =>
          Lt(input_difference(self), R(0)) /\ Lt(input_ratio(self), Q(1, 2))

\* C10 as stated: right after init(target_angle, angle_min, angle_max,
\* input_min, input_max, ...), target() is target_angle and input_range() is
\* input_max - input_min, whatever the arguments.
C10_ConfigRoundTrip ==
    call.op = "init" =>
        /\ target(self) = call.args[1]
        /\ input_range(self) = Sub(call.args[5], call.args[4])

\* C10 amended: right after init, target() is target_angle whatever the
\* arguments, and input_range() is input_max - input_min whenever input_min >=
\* 0 and input_max > input_min; in every case it is max - min of the stored
\* window (min = 0 for input_min < 0, max = 1023 for input_max <= input_min).
C10_ConfigRoundTripCoerced ==
    call.op = "init" =>
        LET lo == call.args[4]
            hi == call.args[5]
        IN  /\ target(self) = call.args[1]
            /\ (Ge(lo, R(0)) /\ Gt(hi, lo) => input_range(self) = Sub(hi, lo))
            /\ input_range(self) = Sub(IF Gt(hi, lo) THEN hi ELSE R(1023),
                                       IF Ge(lo, R(0)) THEN lo ELSE R(0))

\* C10 witness: init with a target other than the constructor's and the
\* window (0, 10), after a cycle has run, reads back target 2 and range 10.
C10_Witness ==
    /\ call.op = "init"
    /\ calls >= 2
    /\ call.args[1] = R(2)
    /\ call.args[4] = R(0)
    /\ call.args[5] = R(10)
    /\ target(self) = R(2)
    /\ input_range(self) = R(10)
    /\ pid.input # R(0)

---------------------------------------------------------------------------
(* Properties of the regulation history, under Spec and under PidSpec. *)

\* <<target, output_min, output_max, kp, ki, kd>> among the arguments a of
\* servo::init (eight arguments) or pid_controller::init (six)
C12_PidArgs(a) == IF Len(a) = 8 THEN <<a[1], a[2], a[3], a[6], a[7], a[8]>> ELSE a

\* C12: integrate, last_error and output are 0 on a new controller, and only
\* regulate (called by servo::run) changes them: init, of the controller or
\* of the servo, on a controller that has regulated replaces target, bounds
\* and gains and leaves the three as they were.
C12_HistoryFrame ==
    /\ calls = 0 =>
          <<pid.integrate, pid.last_error, pid.output>> = <<R(0), R(0), R(0)>>
    /\ [][/\ call'.op \notin {"regulate", "run"} =>
                <<pid'.integrate, pid'.last_error, pid'.output>>
                    = <<pid.integrate, pid.last_error, pid.output>>
          /\ call'.op = "init" =>
                <<pid'.target, pid'.output_min, pid'.output_max,
                  pid'.kp, pid'.ki, pid'.kd>> = C12_PidArgs(call'.args)
       ]_vars

\* C12 witness: init gave a controller that has regulated (integral, last
\* error and output are not 0) another target than the one it regulated
\* towards.
C12_Witness ==
    /\ call.op = "init"
    /\ pid.integrate # R(0)
    /\ pid.last_error # R(0)
    /\ pid.output # R(0)
    /\ pid.target = R(2)
    /\ Sub(R(90), pid.input) = pid.last_error

---------------------------------------------------------------------------
(* Properties of the cycle, under Spec. *)

\* v clamped into [lo, hi], as C13 states it for a reading
C13_Clamped(v, lo, hi) == IF Lt(v, lo) THEN lo ELSE IF Gt(v, hi) THEN hi ELSE v

\* What C13 states of a cycle with the readings l and r that takes the servo
\* from pre to post.
C13_Cycle(pre, post, l, r) ==
    LET mapped == input_mapped(post)
        error == Sub(pre.pid.target, mapped)
    IN  /\ post.left_sensor.val
               = C13_Clamped(l, pre.left_sensor.min, pre.left_sensor.max)
        /\ post.right_sensor.val
               = C13_Clamped(r, pre.right_sensor.min, pre.right_sensor.max)
        /\ post.pid.input = mapped
        /\ post.pid.last_error = error
        /\ post.pid.integrate = Add(pre.pid.integrate, error)

\* C13: a cycle clamps the left reading, then the right reading, and then
\* calls regulate once with input_mapped() of the two new values: after every
\* cycle pid.input is the value input_mapped() has in the post-cycle state
\* (NaN for a zero-width window counts as that value), the error is taken
\* from it and is accumulated once.
C13_CycleOrdering ==
    [][call'.op = "run" => C13_Cycle(self, self', call'.args[1], call'.args[2])]_vars

\* C13 witness: a later cycle (regulate has run before) whose left reading
\* was clamped and whose right reading was not, with unequal sensor values
\* and a finite mapped input stored in pid.input.
C13_Witness ==
    /\ call.op = "run"
    /\ left_sensor.val # call.args[1]
    /\ right_sensor.val = call.args[2]
    /\ left_sensor.val # right_sensor.val
    /\ pid.integrate # pid.last_error
    /\ pid.input[2] > 0
    /\ pid.input = input_mapped(self)

---------------------------------------------------------------------------
(* Properties of the integral, under PidSpec. *)

\* the sum of t - new_input over the regulate calls recorded in h
RECURSIVE C14_SumOfErrors(_, _)
C14_SumOfErrors(h, t) ==
    IF h = <<>> THEN R(0)
    ELSE Add(C14_SumOfErrors(SubSeq(h, 1, Len(h) - 1), t), Sub(t, h[Len(h)][2]))

\* C14: after n regulate calls on a new controller that all saw the same
\* target, integrate is the sum of target - new_input over the n calls,
\* whether or not a call's output was clamped to output_min or output_max.
C14_IntegralIsSumOfErrors ==
    (\A i \in 1..Len(regulated) : regulated[i][1] = pid.target) =>
        pid.integrate = C14_SumOfErrors(regulated, pid.target)

\* C14 witness: target 90 with output_max 1 and at least two regulate(0)
\* calls: every call computed an output above 90, every output was clamped
\* to 1, and the integral is 90 times the number of calls.
C14_Witness ==
    /\ call.op = "regulate"
    /\ Len(regulated) >= 2
    /\ pid.target = R(90)
    /\ pid.output_max = R(1)
    /\ \A i \in 1..Len(regulated) : regulated[i] = <<R(90), R(0), R(1)>>
    /\ pid.integrate = R(90 * Len(regulated))

===========================================================================
